---- MODULE Spec2Model ----
(***************************************************************************)
(* A model of muse (src/foo.py): the playback scheduler (play/_play and    *)
(* the grid loop of __main__), generate_progression and generate_melody.   *)
(*                                                                         *)
(* Three groups of variables, one per part of the program, and one         *)
(* specification per part:                                                 *)
(*   Spec / FairSpec   the playback loop and the note threads              *)
(*   ProgSpec          generate_progression                                *)
(*   MelodySpec        generate_melody                                     *)
(*   PitchSpec         generate_melody for every key, mode and chord       *)
(*   BuildSpec         the track lists __main__ builds for verse and chorus*)
(*   TableSpec         the construction of triad_notes, and get_chord      *)
(*   NoteSpec          note_number called with a string                    *)
(*   DrumSpec          the snare and bass-drum tracks of a section         *)
(*   DispatchSpec      the play() calls of a grid step and their messages  *)
(*   SwingSpec         the float durations of a pair of grid steps         *)
(* A specification leaves the variables of the other parts at their idle   *)
(* values.                                                                 *)
(***************************************************************************)
EXTENDS Integers, Sequences, FiniteSets, TLC

(***************************************************************************)
(* Bounds of the model.                                                    *)
(***************************************************************************)
\* Number of grid steps the playback loop walks (range(128) in the source).
NumSteps == 2
\* Number of tracks the loop reads at every grid step.
NumTracks == 2
\* Largest number of events (non-empty slots) on a grid.
MaxNotes == 3
\* Largest number of bars asked of generate_progression.
MaxBars == 4
\* Longest progression given to generate_melody.
MaxProgLen == 2
\* Largest progression_repeats given to generate_melody.
MaxRepeats == 2
\* Most octave digits of a string given to note_number.
MaxOctaveDigits == 2
\* How many of the lowest values of a velocity draw (randint(20, 50),
\* randint(30, 80)) the drum patterns are built from, beside the highest.
VelEnds == 1

\* The steps of the playback loop (line 320) the swing timing is followed
\* through, pair by pair (an even step and the next one).
SwingSteps == 2

VARIABLES
    \* ---- playback ----
    grid,           \* grid[n][k]: whether track k holds an event at step n
    i,              \* the loop variable of the playback loop (line 320)
    track,          \* the track the loop looks at next for step i
    threads,        \* the note threads started so far, in start order
    mido_mutex,     \* the thread holding mido_mutex, or Unlocked
    \* ---- generate_progression ----
    bars,           \* parameter bars
    gp_major,       \* parameter major
    seed,           \* parameter seed (None when not given)
    gp_progression, \* the local list progression
    gp_k,           \* iterations done of "for _ in range(bars - 1)"
    gp_pc,          \* where the call stands
    \* ---- generate_melody ----
    key,                  \* parameter key
    progression,          \* parameter progression
    progression_repeats,  \* parameter progression_repeats
    major,                \* parameter major
    rep,                  \* iterations done of "for _ in range(progression_repeats)"
    chord_i,              \* the i of "for i, chord in enumerate(progression)"
    time_used,            \* the local time_used, in thousandths of a bar
    last_played,          \* the local last_played (NoPitch for None)
    out_len,              \* len(out)
    chord_tones,          \* the local list chord_tones
    non_chord_tones,      \* the local list non_chord_tones
    gm_pc,                \* where the call stands
    \* ---- __main__: the track lists of a section (lines 247-305) ----
    build,          \* the locals of the construction, see BuildInit
    \* ---- module level: triad_notes (lines 64-81) and get_chord calls ----
    load,           \* triad_notes as built so far, and a get_chord call
    \* ---- note_number (lines 124-138) ----
    call,           \* a call of note_number: its argument and its outcome
    \* ---- __main__: a drum track (lines 268-274, 295-300) ----
    drums,          \* the pattern (snare or bass) and the track made of it
    \* ---- __main__: the events of a grid step (lines 307-383) ----
    dispatch,       \* a slot of a track, its play() calls and messages
    \* ---- __main__: tempo and swing (lines 237-244, 320-337) ----
    timing          \* the tempo, and what a pair of steps plays and sleeps

playVars == <<grid, i, track, threads, mido_mutex>>

progVars == <<bars, gp_major, seed, gp_progression, gp_k, gp_pc>>

melodyVars ==
    <<key, progression, progression_repeats, major, rep, chord_i, time_used,
      last_played, out_len, chord_tones, non_chord_tones, gm_pc>>

otherVars == <<build, load, call, drums, dispatch, timing>>

vars == <<playVars, progVars, melodyVars, otherVars>>

\* What a specification of one part leaves alone.
nonPlayVars == <<progVars, melodyVars, otherVars>>

nonProgVars == <<playVars, melodyVars, otherVars>>

nonMelodyVars == <<playVars, progVars, otherVars>>

\* The variables of playback, generate_progression and generate_melody.
callVars == <<playVars, progVars, melodyVars>>

(***************************************************************************)
(* Playback: play, _play, and the loop of lines 320-337.                   *)
(***************************************************************************)

\* mido_mutex = Lock(): a new lock is unlocked; no thread id is 0.
Unlocked == 0

Tracks == 1..NumTracks

Steps == 0..(NumSteps - 1)

\* The arguments of the play() call for the event of track k at step n, as
\* (note, velocity, channel): every track plays on its own channel, and the
\* events of a grid differ from each other.
SlotEvent(n, k) == [note |-> 48 + n, vel |-> 80 - 10 * k, channel |-> k - 1]

\* Number of events on grid g.
CountNotes(g) == Cardinality({ c \in Steps \X Tracks : g[c[1]][c[2]] })

\* The grids the loop may be given: every slot of every track holds an
\* event or None.
Grids == { g \in [Steps -> [Tracks -> BOOLEAN]] : CountNotes(g) <= MaxNotes }

\* mido.Message('note_on', note=note, velocity=vel, channel=channel)
NoteOnMsg(th) ==
    [type |-> "note_on", note |-> th.note, velocity |-> th.vel,
     channel |-> th.channel]

\* A note_off that drops the velocity (a plausible slip: velocity=0).
NoteOffMsgZeroVel(th) ==
    [type |-> "note_off", note |-> th.note, velocity |-> 0,
     channel |-> th.channel]

\* mido.Message('note_off', note=note, velocity=vel, channel=channel)
NoteOffMsg(th) ==
    [type |-> "note_off", note |-> th.note, velocity |-> th.vel,
     channel |-> th.channel]

\* A lock that lets every caller in.
CanAcquireAlways(m) == TRUE

\* mido_mutex.acquire() blocks until the lock is unlocked.
CanAcquire(m) == m = Unlocked

ThreadIds == 1..Len(threads)

\* play(): Thread(target=_play, args=...).start().  The new thread stands
\* before its first acquire and has sent nothing.
NewThread(ev, step) ==
    [note |-> ev.note, vel |-> ev.vel, channel |-> ev.channel,
     step |-> step, pc |-> "start", sent |-> <<>>]

\* The playback loop looks at the slot of the next track for step i
\* (lines 325-336): "if event[0]: ... play(...)", nothing for a None slot.
Play ==
    /\ i < NumSteps
    /\ track <= NumTracks
    /\ threads' = IF grid[i][track]
                      THEN Append(threads, NewThread(SlotEvent(i, track), i))
                      ELSE threads
    /\ track' = track + 1
    /\ UNCHANGED <<grid, i, mido_mutex>>
    /\ UNCHANGED nonPlayVars

\* A loop that joins the threads it started before it goes on.
StepSleepJoin ==
    /\ i < NumSteps
    /\ track > NumTracks
    /\ \A t \in 1..Len(threads) : threads[t].pc \in {"done", "aborted"}
    /\ i' = i + 1
    /\ track' = 1
    /\ UNCHANGED <<grid, threads, mido_mutex>>
    /\ UNCHANGED nonPlayVars

\* All tracks of step i are dispatched: time.sleep(...) at line 337 returns
\* and the loop goes to the next step.  It waits for no thread.
StepSleep ==
    /\ i < NumSteps
    /\ track > NumTracks
    /\ i' = i + 1
    /\ track' = 1
    /\ UNCHANGED <<grid, threads, mido_mutex>>
    /\ UNCHANGED nonPlayVars

\* Line 96: mido_mutex.acquire() before the note_on.
AcquireOn(t) ==
    /\ threads[t].pc = "start"
    /\ CanAcquire(mido_mutex)
    /\ mido_mutex' = t
    /\ threads' = [threads EXCEPT ![t].pc = "note_on"]
    /\ UNCHANGED <<grid, i, track>>
    /\ UNCHANGED nonPlayVars

\* Lines 97-102: the note_on is built and sent; finally releases the lock.
SendOn(t) ==
    /\ threads[t].pc = "note_on"
    /\ threads' = [threads EXCEPT
                     ![t].sent = Append(@, NoteOnMsg(threads[t])),
                     ![t].pc = "sleep"]
    /\ mido_mutex' = Unlocked
    /\ UNCHANGED <<grid, i, track>>
    /\ UNCHANGED nonPlayVars

\* The same without the finally clause: the exception leaves the lock held.
SendOnRaiseNoFinally(t) ==
    /\ threads[t].pc = "note_on"
    /\ threads' = [threads EXCEPT ![t].pc = "aborted"]
    /\ UNCHANGED <<grid, i, track, mido_mutex>>
    /\ UNCHANGED nonPlayVars

\* Lines 97-102 when mido.Message or output.send raises: finally releases
\* the lock, the exception ends the thread (and only this thread).
SendOnRaise(t) ==
    /\ threads[t].pc = "note_on"
    /\ threads' = [threads EXCEPT ![t].pc = "aborted"]
    /\ mido_mutex' = Unlocked
    /\ UNCHANGED <<grid, i, track>>
    /\ UNCHANGED nonPlayVars

\* Lines 103-104: time.sleep(duration) returns and the lock is acquired
\* again.  The thread holds no lock while it sleeps.
AcquireOff(t) ==
    /\ threads[t].pc = "sleep"
    /\ CanAcquire(mido_mutex)
    /\ mido_mutex' = t
    /\ threads' = [threads EXCEPT ![t].pc = "note_off"]
    /\ UNCHANGED <<grid, i, track>>
    /\ UNCHANGED nonPlayVars

\* Lines 105-110: the note_off is built and sent; finally releases the lock
\* and _play returns.
SendOff(t) ==
    /\ threads[t].pc = "note_off"
    /\ threads' = [threads EXCEPT
                     ![t].sent = Append(@, NoteOffMsg(threads[t])),
                     ![t].pc = "done"]
    /\ mido_mutex' = Unlocked
    /\ UNCHANGED <<grid, i, track>>
    /\ UNCHANGED nonPlayVars

\* The same without the finally clause.
SendOffRaiseNoFinally(t) ==
    /\ threads[t].pc = "note_off"
    /\ threads' = [threads EXCEPT ![t].pc = "aborted"]
    /\ UNCHANGED <<grid, i, track, mido_mutex>>
    /\ UNCHANGED nonPlayVars

\* Lines 105-110 when mido.Message or output.send raises.
SendOffRaise(t) ==
    /\ threads[t].pc = "note_off"
    /\ threads' = [threads EXCEPT ![t].pc = "aborted"]
    /\ mido_mutex' = Unlocked
    /\ UNCHANGED <<grid, i, track>>
    /\ UNCHANGED nonPlayVars

\* One step of note thread t (_play, lines 95-110).
ThreadStep(t) ==
    \/ AcquireOn(t)
    \/ SendOn(t)
    \/ SendOnRaise(t)
    \/ AcquireOff(t)
    \/ SendOff(t)
    \/ SendOffRaise(t)

\* One step of the playback loop (lines 320-337).
Driver == Play \/ StepSleep

PlayInit ==
    /\ grid \in Grids
    /\ i = 0
    /\ track = 1
    /\ threads = <<>>
    /\ mido_mutex = Unlocked

\* The playback variables while another part of the program is looked at.
PlayIdle ==
    /\ grid = [n \in Steps |-> [k \in Tracks |-> FALSE]]
    /\ i = 0
    /\ track = 1
    /\ threads = <<>>
    /\ mido_mutex = Unlocked

(***************************************************************************)
(* generate_progression and pick_next_chord (lines 170-190).               *)
(***************************************************************************)

\* Python's None, here among chord symbols.
None == "None"

\* The value of the variables of a part of the program that is not run.
Idle == [pc |-> "idle"]

transitions_major ==
    [c \in {"I", "ii", "iii", "IV", "V", "vi", "vii0"} |->
        CASE c = "I"    -> <<"I", "ii", "iii", "IV", "V", "vi", "vii0">>
          [] c = "ii"   -> <<"V", "vii0">>
          [] c = "iii"  -> <<"IV", "vi">>
          [] c = "IV"   -> <<"I", "ii", "V", "vii0">>
          [] c = "V"    -> <<"I", "vi">>
          [] c = "vi"   -> <<"ii", "IV", "V">>
          [] c = "vii0" -> <<"I">>]

transitions_minor ==
    [c \in {"i", "ii0", "III", "iv", "V", "VI", "VII", "vii0"} |->
        CASE c = "i"    -> <<"i", "ii0", "III", "iv", "V", "VI", "VII", "vii0">>
          [] c = "ii0"  -> <<"V", "vii0">>
          [] c = "III"  -> <<"iv", "VI">>
          [] c = "iv"   -> <<"i", "ii0", "V", "vii0">>
          [] c = "V"    -> <<"i", "VI">>
          [] c = "VI"   -> <<"ii0", "iv", "V">>
          [] c = "VII"  -> <<"III">>
          [] c = "vii0" -> <<"i", "V">>]

\* Line 186: transitions = transitions_major if major else transitions_minor
TransitionsFor(maj) == IF maj THEN transitions_major ELSE transitions_minor

\* random.randint(a, b): any integer of a..b.
randint(a, b) == a..b

\* A next chord picked among all chords of the graph, whatever the current one.
PickAnyChord(current, transitions) == DOMAIN transitions

\* pick_next_chord(seed, transitions): the chords
\* transitions[seed][randint(0, len(transitions[seed]) - 1)] can be (Python
\* indexes from 0, a TLA+ sequence from 1).
pick_next_chord(current, transitions) ==
    { transitions[current][r + 1] :
          r \in randint(0, Len(transitions[current]) - 1) }

\* The first chord (line 187): pick_next_chord(seed, transitions) if seed,
\* else transitions.keys()[randint(0, len(transitions.keys()) - 1)].
FirstChords(sd, transitions) ==
    IF sd # None
       THEN pick_next_chord(sd, transitions)
       ELSE DOMAIN transitions

\* The arguments generate_progression is called with: bars below 1 too, and
\* a seed that is None, a chord of the graph, or a chord of the other graph.
BarsArgs == (0 - 1)..MaxBars

SeedArgs == {None} \cup DOMAIN transitions_major \cup DOMAIN transitions_minor

ProgInit ==
    /\ bars \in BarsArgs
    /\ gp_major \in BOOLEAN
    /\ seed \in SeedArgs
    /\ gp_progression = <<>>
    /\ gp_k = 0
    /\ gp_pc = "start"

ProgIdle ==
    /\ bars = 0
    /\ gp_major = TRUE
    /\ seed = None
    /\ gp_progression = <<>>
    /\ gp_k = 0
    /\ gp_pc = "idle"

\* Lines 186-187: the graph is chosen and the first chord is picked.  A seed
\* that is no key of the graph raises KeyError in pick_next_chord.
GPFirst ==
    /\ gp_pc = "start"
    /\ seed # None => seed \in DOMAIN TransitionsFor(gp_major)
    /\ \E c \in FirstChords(seed, TransitionsFor(gp_major)) :
           gp_progression' = <<c>>
    /\ gp_pc' = "loop"
    /\ UNCHANGED <<bars, gp_major, seed, gp_k>>
    /\ UNCHANGED nonProgVars

\* Line 187 with a seed that is no key of the graph: KeyError.
GPFirstKeyError ==
    /\ gp_pc = "start"
    /\ seed # None
    /\ seed \notin DOMAIN TransitionsFor(gp_major)
    /\ gp_pc' = "KeyError"
    /\ UNCHANGED <<bars, gp_major, seed, gp_progression, gp_k>>
    /\ UNCHANGED nonProgVars

\* Lines 188-189: one iteration of "for _ in range(bars - 1)": the next
\* chord is picked from the last one; a last chord that is no key of the
\* graph raises KeyError.
GPAppend ==
    /\ gp_pc = "loop"
    /\ gp_k < bars - 1
    /\ LET last == gp_progression[Len(gp_progression)]
           transitions == TransitionsFor(gp_major)
       IN  IF last \in DOMAIN transitions
              THEN /\ \E c \in pick_next_chord(last, transitions) :
                          gp_progression' = Append(gp_progression, c)
                   /\ gp_k' = gp_k + 1
                   /\ gp_pc' = "loop"
              ELSE /\ gp_pc' = "KeyError"
                   /\ UNCHANGED <<gp_progression, gp_k>>
    /\ UNCHANGED <<bars, gp_major, seed>>
    /\ UNCHANGED nonProgVars

\* Line 190: range(bars - 1) is exhausted (at once when bars <= 1) and the
\* list is returned.
GPReturn ==
    /\ gp_pc = "loop"
    /\ ~(gp_k < bars - 1)
    /\ gp_pc' = "returned"
    /\ UNCHANGED <<bars, gp_major, seed, gp_progression, gp_k>>
    /\ UNCHANGED nonProgVars

(***************************************************************************)
(* Note names, scales and chords (lines 9-28, 55-81, 124-158).             *)
(* A Python string is a sequence of one-character strings.                 *)
(***************************************************************************)

\* Line 10.
keys_in_octave ==
    << <<"C">>, <<"C", "#">>, <<"D">>, <<"D", "#">>, <<"E">>, <<"F">>,
       <<"F", "#">>, <<"G">>, <<"G", "#">>, <<"A">>, <<"A", "#">>, <<"B">> >>

\* Lines 12-22, as (name, standard name) pairs.
note_remap ==
    << << <<"D", "b">>, <<"C", "#">> >>,
       << <<"E", "b">>, <<"D", "#">> >>,
       << <<"E", "#">>, <<"F">> >>,
       << <<"F", "b">>, <<"E">> >>,
       << <<"G", "b">>, <<"F", "#">> >>,
       << <<"A", "b">>, <<"G", "#">> >>,
       << <<"B", "b">>, <<"A", "#">> >>,
       << <<"B", "#">>, <<"C">> >>,
       << <<"C", "b">>, <<"B">> >> >>

\* Lines 27-28.
major_scale_progression == <<0, 2, 4, 5, 7, 9, 11, 12>>

minor_scale_progression == <<0, 2, 3, 5, 7, 8, 10, 12>>

Range(sq) == { sq[n] : n \in 1..Len(sq) }

\* list.index(x): the first position of x, counted from 0.  The caller makes
\* sure x is in the list (Python raises ValueError otherwise).
ListIndex(sq, x) ==
    (CHOOSE n \in 1..Len(sq) :
         sq[n] = x /\ \A m \in 1..(n - 1) : sq[m] # x) - 1

\* The elements of a finite set of integers as a list, in increasing order.
\* (Python leaves the order of list(set) open; the order only permutes the
\* list.)
RECURSIVE SortedList(_)
SortedList(S) ==
    IF S = {} THEN <<>>
    ELSE LET m == CHOOSE x \in S : \A y \in S : x <= y
         IN  <<m>> \o SortedList(S \ {m})

LowerLetters ==
    <<"a", "b", "c", "d", "e", "f", "g", "h", "i", "j", "k", "l", "m",
      "n", "o", "p", "q", "r", "s", "t", "u", "v", "w", "x", "y", "z">>

UpperLetters ==
    <<"A", "B", "C", "D", "E", "F", "G", "H", "I", "J", "K", "L", "M",
      "N", "O", "P", "Q", "R", "S", "T", "U", "V", "W", "X", "Y", "Z">>

Digits == <<"0", "1", "2", "3", "4", "5", "6", "7", "8", "9">>

\* str.upper() of one character.
Upper(c) ==
    IF c \in Range(LowerLetters)
       THEN UpperLetters[ListIndex(LowerLetters, c) + 1]
       ELSE c

\* int(s) of a string of decimal digits.
RECURSIVE IntOfDigits(_)
IntOfDigits(ds) ==
    IF ds = <<>> THEN 0
    ELSE 10 * IntOfDigits(SubSeq(ds, 1, Len(ds) - 1))
             + ListIndex(Digits, ds[Len(ds)])

\* str(n) of an integer n >= 0.
RECURSIVE StrOfInt(_)
StrOfInt(n) ==
    IF n < 10 THEN <<Digits[n + 1]>>
    ELSE StrOfInt(n \div 10) \o <<Digits[(n % 10) + 1]>>

\* re.match(r'^([A-Z][b#]?)(\d+)$', s): whether s matches.
NoteMatches(s) ==
    /\ Len(s) >= 2
    /\ s[1] \in Range(UpperLetters)
    /\ LET acc == IF s[2] \in {"b", "#"} THEN 1 ELSE 0
       IN  /\ Len(s) >= 2 + acc
           /\ \A n \in (2 + acc)..Len(s) : s[n] \in Range(Digits)

\* The two groups of the match: the note (letter and accidental) and the
\* octave digits.
NoteGroups(s) ==
    LET acc == IF s[2] \in {"b", "#"} THEN 1 ELSE 0
    IN  [note |-> SubSeq(s, 1, 1 + acc), octave |-> SubSeq(s, 2 + acc, Len(s))]

\* Lines 133-134: note_remap[note] when note is a key of note_remap.
Remap(note) ==
    IF \E n \in 1..Len(note_remap) : note_remap[n][1] = note
       THEN note_remap[CHOOSE n \in 1..Len(note_remap) :
                           note_remap[n][1] = note][2]
       ELSE note

\* note_number(note), lines 124-138.  The result is a record: error "none"
\* and the MIDI number, or the exception raised: IndexError for the empty
\* string (note[0]), Exception for a string that does not match, ValueError
\* when keys_in_octave.index does not find the note.
note_number(note) ==
    IF note = <<>> THEN [error |-> "IndexError", value |-> 0]
    ELSE LET s == <<Upper(note[1])>> \o Tail(note)
         IN  IF ~NoteMatches(s)
                THEN [error |-> "Exception", value |-> 0]
                ELSE LET g == NoteGroups(s)
                         name == Remap(g.note)
                     IN  IF name \notin Range(keys_in_octave)
                            THEN [error |-> "ValueError", value |-> 0]
                            ELSE [error |-> "none",
                                  value |-> (IntOfDigits(g.octave) + 2) * 12
                                              + ListIndex(keys_in_octave, name)]

\* generate_scale(name, octave, major), lines 140-149.
generate_scale(name, octave, maj) ==
    LET scale == IF maj THEN major_scale_progression
                        ELSE minor_scale_progression
        base_note == note_number(name \o StrOfInt(octave)).value
    IN  [n \in 1..Len(scale) |-> base_note + scale[n]]

\* The triads written out at lines 64-74.
triad_notes_declared ==
    [c \in {"I", "II", "III", "IV", "V", "VI", "VII", "ii0", "vii0"} |->
        CASE c = "I"    -> <<0, 4, 7>>
          [] c = "II"   -> <<2, 6, 9>>
          [] c = "III"  -> <<4, 8, 11>>
          [] c = "IV"   -> <<5, 9, 12>>
          [] c = "V"    -> <<7, 11, 14>>
          [] c = "VI"   -> <<9, 13, 16>>
          [] c = "VII"  -> <<11, 15, 18>>
          [] c = "ii0"  -> <<1, 4, 7, 9>>
          [] c = "vii0" -> <<0, 4, 7, 10>>]

\* major_chord_to_minor(symbol), lines 55-58: a copy of the triad with its
\* second interval lowered by one (minor[1] in Python is the second element).
major_chord_to_minor(table, symbol) ==
    [table[symbol] EXCEPT ![2] = @ - 1]

\* The table without lines 75-81.
triad_notes_without_minor == triad_notes_declared

\* triad_notes after lines 75-81.
triad_notes ==
    [c \in DOMAIN triad_notes_declared
             \cup {"i", "ii", "iii", "iv", "v", "vi", "vii"} |->
        CASE c = "i"   -> major_chord_to_minor(triad_notes_declared, "I")
          [] c = "ii"  -> major_chord_to_minor(triad_notes_declared, "II")
          [] c = "iii" -> major_chord_to_minor(triad_notes_declared, "III")
          [] c = "iv"  -> major_chord_to_minor(triad_notes_declared, "IV")
          [] c = "v"   -> major_chord_to_minor(triad_notes_declared, "V")
          [] c = "vi"  -> major_chord_to_minor(triad_notes_declared, "VI")
          [] c = "vii" -> major_chord_to_minor(triad_notes_declared, "VII")
          [] OTHER     -> triad_notes_declared[c]]

\* get_chord(symbol, base_note), lines 151-158.
get_chord(symbol, base_note) ==
    [n \in 1..Len(triad_notes[symbol]) |-> triad_notes[symbol][n] + base_note]

(***************************************************************************)
(* generate_melody (lines 192-233).                                        *)
(*                                                                         *)
(* Times are kept in thousandths of a bar: 0.125 is 125, one bar is 1000.  *)
(* Every time of the source is a multiple of 0.125 = 2^-3 below 2^50, so   *)
(* the source's float sums, comparisons and the quotient note_val / 0.125  *)
(* are exact and agree with the integer arithmetic here.                   *)
(***************************************************************************)

\* One bar, in thousandths (the 1 of "i + 1" and of len(progression) bars).
Bar == 1000

\* The shortest note (0.125 at lines 210 and 230), in thousandths.
Eighth == 125

\* Grid slots of a bar (the 8 of the assertion at line 232).
StepsPerBar == 8

\* NEARBY_INCENTIVE's window (the 36 of line 226).
PitchWindow == 36

\* last_played = None (line 206); no MIDI number is negative.
NoPitch == -1

\* note_vals (line 210): (length in thousandths of a bar, weight * 4).
note_vals ==
    << <<125, 8>>, <<250, 16>>, <<375, 8>>, <<500, 8>>, <<750, 4>>,
       <<1000, 4>>, <<1250, 2>>, <<1500, 1>> >>

\* A filter that also refuses the note that ends exactly with the
\* progression.
FitsStrictly(used, x, len) == used + x < Bar * len

\* A filter that lets every note through.
FitsAlways(used, x, len) == TRUE

\* The filter of lines 214-215: time_used + x <= len(progression).
Fits(used, x, len) == used + x <= Bar * len

\* possible_note_vals (line 214); the weights of line 215 are all positive,
\* so numpy.random.choice can return each of them.
possible_note_vals(used, len) ==
    { note_vals[n][1] : n \in { m \in 1..Len(note_vals) :
                                   /\ Fits(used, note_vals[m][1], len)
                                   /\ note_vals[m][2] > 0 } }

\* The slots of a note that counts one too many.
ContinuationSlotsOneMore(note_val) == note_val \div Eighth

\* Line 230: int(note_val / 0.125) - 1 None slots follow the note.
ContinuationSlots(note_val) == (note_val \div Eighth) - 1

\* Chord tones doubled four octaves higher instead of one.
ChordTonesFourOctaves(k, chord) ==
    LET tones == get_chord(chord, note_number(k \o <<"2">>).value)
    IN  tones \o [n \in 1..Len(tones) |-> tones[n] + 48]

\* Lines 202-203: the chord's tones and the same an octave higher.
ChordTones(k, chord) ==
    LET tones == get_chord(chord, note_number(k \o <<"2">>).value)
    IN  tones \o [n \in 1..Len(tones) |-> tones[n] + 12]

\* Lines 201, 204-205: the tones of the scale (without its last one) that
\* are no chord tones, and the same an octave higher.
NonChordTones(k, chord, maj) ==
    LET all_tones == generate_scale(k, 2, maj)
        rest == SortedList(Range(SubSeq(all_tones, 1, Len(all_tones) - 1))
                               \ Range(ChordTones(k, chord)))
    IN  rest \o [n \in 1..Len(rest) |-> rest[n] + 12]

\* Line 221: non_chord_tones if int(randint(0, 10) / 10.0) else chord_tones;
\* r is the value of randint(0, 10).
select_from(r) ==
    IF r \div 10 # 0 THEN non_chord_tones ELSE chord_tones

Abs(x) == IF x < 0 THEN 0 - x ELSE x

\* Line 226: "if last_played" is false for None and for 0.
Truthy(p) == p # NoPitch /\ p # 0

\* Line 226: the weight of candidate x,
\* (36 - int(fabs(last_played - x))) ** 2.0 if last_played else 1.
PitchWeight(last, x) ==
    IF Truthy(last)
       THEN (PitchWindow - Abs(last - x)) * (PitchWindow - Abs(last - x))
       ELSE 1

RECURSIVE SumSeq(_)
SumSeq(sq) == IF sq = <<>> THEN 0 ELSE Head(sq) + SumSeq(Tail(sq))

\* sum(select_from_probabilities) of line 227.
WeightSum(last, pool) == SumSeq([n \in 1..Len(pool) |-> PitchWeight(last, pool[n])])

\* The pitches numpy.random.choice(select_from, p=...) can return at line
\* 228: the candidates of positive probability.
DrawablePitches(last, pool) ==
    { pool[n] : n \in { m \in 1..Len(pool) : PitchWeight(last, pool[m]) > 0 } }

\* The keys generate_melody is called with: the lowest and the highest base
\* note of keys_in_octave (line 242 draws any of the twelve).
MelodyKeys == {keys_in_octave[1], keys_in_octave[Len(keys_in_octave)]}

\* The modes generate_melody is called with: line 241 sets major = True.
MelodyModes == {TRUE}

\* The walks of len chords generate_progression(len, maj, sd) returns.
Walks(len, maj, sd) ==
    LET graph == TransitionsFor(maj)
    IN  { p \in [1..len -> DOMAIN graph] :
              /\ p[1] \in FirstChords(sd, graph)
              /\ \A n \in 1..(len - 1) : p[n + 1] \in Range(graph[p[n]]) }

\* The progressions generate_melody is called with: what
\* generate_progression returns for 1..MaxProgLen bars after a section that
\* ended on vii0 (lines 247, 281: the program asks for 4 bars).
Progressions(maj) ==
    UNION { Walks(len, maj, "vii0") : len \in 1..MaxProgLen }

\* The one-chord progressions of a mode: every chord generate_progression
\* can return, as a first chord (seeded or not) or as a later one.
PitchProgressions(maj) ==
    UNION { Walks(1, maj, sd) :
                sd \in {None} \cup DOMAIN TransitionsFor(maj) }
      \cup { <<chord>> :
                 chord \in UNION { Range(TransitionsFor(maj)[c]) :
                                       c \in DOMAIN TransitionsFor(maj) } }

MelodyInit ==
    /\ key \in MelodyKeys
    /\ major \in MelodyModes
    /\ progression \in Progressions(major)
    /\ progression_repeats \in 1..MaxRepeats
    /\ rep = 0
    /\ chord_i = 0
    /\ time_used = 0
    /\ last_played = NoPitch
    /\ out_len = 0
    /\ chord_tones = <<>>
    /\ non_chord_tones = <<>>
    /\ gm_pc = "repeat"

MelodyIdle ==
    /\ key = keys_in_octave[1]
    /\ major = TRUE
    /\ progression = <<>>
    /\ progression_repeats = 0
    /\ rep = 0
    /\ chord_i = 0
    /\ time_used = 0
    /\ last_played = NoPitch
    /\ out_len = 0
    /\ chord_tones = <<>>
    /\ non_chord_tones = <<>>
    /\ gm_pc = "idle"

\* Lines 198-199: the next iteration of "for _ in range(progression_repeats)"
\* starts: time_used = 0.0 and the enumeration of the progression begins.
GMRepeatBegin ==
    /\ gm_pc = "repeat"
    /\ rep < progression_repeats
    /\ time_used' = 0
    /\ chord_i' = 0
    /\ gm_pc' = "chord"
    /\ UNCHANGED <<key, progression, progression_repeats, major, rep,
                   last_played, out_len, chord_tones, non_chord_tones>>
    /\ UNCHANGED nonMelodyVars

\* Lines 200-206: the next chord of the progression: its pools are built
\* (get_chord raises KeyError for a symbol triad_notes does not have) and
\* last_played is reset to None.
GMChordBegin ==
    /\ gm_pc = "chord"
    /\ chord_i < Len(progression)
    /\ LET chord == progression[chord_i + 1]
       IN  IF chord \in DOMAIN triad_notes
              THEN /\ chord_tones' = ChordTones(key, chord)
                   /\ non_chord_tones' = NonChordTones(key, chord, major)
                   /\ last_played' = NoPitch
                   /\ gm_pc' = "while"
              ELSE /\ gm_pc' = "KeyError"
                   /\ UNCHANGED <<last_played, chord_tones, non_chord_tones>>
    /\ UNCHANGED <<key, progression, progression_repeats, major, rep, chord_i,
                   time_used, out_len>>
    /\ UNCHANGED nonMelodyVars

\* Lines 209-231: one iteration of "while time_used < i + 1": a note length
\* and a pitch are drawn, the note and its None slots are appended to out.
\* numpy.random.choice raises ValueError for an empty list of lengths or of
\* pitches; line 227 raises ZeroDivisionError when the weights of a pool
\* that is not empty sum to 0.
GMNote ==
    /\ gm_pc = "while"
    /\ time_used < Bar * (chord_i + 1)
    /\ LET lengths == possible_note_vals(time_used, Len(progression))
       IN  IF lengths = {}
              THEN /\ gm_pc' = "ValueError"
                   /\ UNCHANGED <<time_used, last_played, out_len>>
              ELSE \E pool \in { select_from(r) : r \in randint(0, 10) } :
                       IF pool = <<>> \/ WeightSum(last_played, pool) = 0
                          THEN /\ gm_pc' = IF pool = <<>>
                                              THEN "ValueError"
                                              ELSE "ZeroDivisionError"
                               /\ UNCHANGED <<time_used, last_played, out_len>>
                          ELSE /\ \E note_val \in lengths :
                                    /\ out_len' = out_len + 1
                                                    + ContinuationSlots(note_val)
                                    /\ time_used' = time_used + note_val
                               /\ \E pitch \in DrawablePitches(last_played, pool) :
                                      last_played' = pitch
                               /\ gm_pc' = "while"
    /\ UNCHANGED <<key, progression, progression_repeats, major, rep, chord_i,
                   chord_tones, non_chord_tones>>
    /\ UNCHANGED nonMelodyVars

\* Line 209 when time_used < i + 1 is false: the chord's loop ends and the
\* enumeration goes to the next chord.
GMChordEnd ==
    /\ gm_pc = "while"
    /\ ~(time_used < Bar * (chord_i + 1))
    /\ chord_i' = chord_i + 1
    /\ gm_pc' = "chord"
    /\ UNCHANGED <<key, progression, progression_repeats, major, rep,
                   time_used, last_played, out_len, chord_tones,
                   non_chord_tones>>
    /\ UNCHANGED nonMelodyVars

\* Line 200 when the progression is exhausted: the repeat is over.
GMRepeatEnd ==
    /\ gm_pc = "chord"
    /\ ~(chord_i < Len(progression))
    /\ rep' = rep + 1
    /\ gm_pc' = "repeat"
    /\ UNCHANGED <<key, progression, progression_repeats, major, chord_i,
                   time_used, last_played, out_len, chord_tones,
                   non_chord_tones>>
    /\ UNCHANGED nonMelodyVars

\* Lines 232-233 after the last repeat: the assertion, then return out.
GMReturn ==
    /\ gm_pc = "repeat"
    /\ ~(rep < progression_repeats)
    /\ gm_pc' = IF out_len = StepsPerBar * Len(progression) * progression_repeats
                   THEN "returned"
                   ELSE "AssertionError"
    /\ UNCHANGED <<key, progression, progression_repeats, major, rep, chord_i,
                   time_used, last_played, out_len, chord_tones,
                   non_chord_tones>>
    /\ UNCHANGED nonMelodyVars

(***************************************************************************)
(* __main__: the track lists of the verse and of the chorus (lines         *)
(* 247-305).  A list is kept as its length.                                *)
(***************************************************************************)

\* generate_progression(4, ...) at lines 247 and 281.
SongBars == 4

\* "for _ in range(4)" at lines 250, 255, 260, 284, 289.
SectionRepeats == 4

\* "[None for x in range(7)]" at lines 253 and 287.
ChordRests == 7

\* "[..., ...]*4" at line 258.
RhythmPairs == 4

\* "for _ in range(8)" / "for i in range(8)" at lines 269, 272, 295, 298.
PatternSteps == 8

\* "] * 16" at lines 273, 274, 299, 300.
DrumTiles == 16

\* "]*64" at lines 275 and 301.
HihatTiles == 64

\* range(128) at lines 275, 301, 320, 339, 356.
GridSteps == 128

Sections == {"verse", "chorus"}

TrackNames ==
    {"chords", "rhythm_chords", "arp", "snare", "bass", "hihat", "melody"}

\* The tracks a section's playback loop indexes with i (lines 321-330 for
\* the verse; the chorus loop, lines 340-347, has no rhythm chords).
TracksOf(section) ==
    IF section = "verse" THEN TrackNames ELSE TrackNames \ {"rhythm_chords"}

\* The notes of the arpeggio without the repeated second note.
ArpNotesUnpadded(notes_) == notes_

\* Lines 263 and 292: notes_ + [notes_[1]] if len(notes_) == 3 else notes_
\* (notes_[1] in Python is the second element).
ArpNotes(notes_) ==
    IF Len(notes_) = 3 THEN notes_ \o <<notes_[2]>> ELSE notes_

\* melody_repeats = 2*int(randint(3, 6)/3.0), lines 276 and 302.
MelodyRepeatsDraws == { 2 * (r \div 3) : r \in randint(3, 6) }

\* The keys the track lists are built for (line 242 draws any of the twelve;
\* the key moves every chord by the same number of semitones).
BuildKeys == {keys_in_octave[1]}

\* The verse progressions the track lists are built for: what
\* generate_progression(4, major=True) returns when its first chord is vii0.
\* They hold chords of four tones and of three, and every chord of the graph
\* ends one of them (and seeds the chorus).
BuildVerseProgressions ==
    { p \in Walks(SongBars, TRUE, None) : p[1] = "vii0" }

\* The progression a section's chord tracks are built from.
BuildProgression(b) ==
    IF b.section = "verse" THEN b.verse_progression ELSE b.chorus_progression

\* The statement after the loops of track t in a section.
AfterTrack(section, t) ==
    CASE t = "chords" -> IF section = "verse" THEN "rhythm_chords" ELSE "arp"
      [] t = "rhythm_chords" -> "arp"
      [] t = "arp" -> "snare"

\* The end of one iteration of "for _ in range(4): for chord in progression":
\* the next chord, the next repeat, or the statement after the loops.
LoopStep(b, t) ==
    IF b.idx + 1 < Len(BuildProgression(b))
       THEN [b EXCEPT !.idx = @ + 1]
       ELSE IF b.rep + 1 < SectionRepeats
               THEN [b EXCEPT !.rep = @ + 1, !.idx = 0]
               ELSE [b EXCEPT !.rep = 0, !.idx = 0,
                              !.pc = AfterTrack(b.section, t)]

\* len(list) after n more elements were appended to track t.
Grown(b, t, n) == [b EXCEPT !.lens[b.section][t] = @ + n]

BuildInit ==
    build = [pc |-> "progression", section |-> "verse",
             key |-> keys_in_octave[1],
             verse_progression |-> <<>>, chorus_progression |-> <<>>,
             rep |-> 0, idx |-> 0, melody_repeats |-> 0,
             lens |-> [sec \in Sections |-> [t \in TrackNames |-> 0]]]

\* Line 242 and lines 247, 281: the key is drawn (before the verse), and
\* the section's progression is what generate_progression(4, major=True)
\* returns, seeded with the verse's last chord for the chorus.
BProgression ==
    /\ build.pc = "progression"
    /\ IF build.section = "verse"
          THEN \E k \in BuildKeys :
               \E p \in BuildVerseProgressions :
                   build' = [build EXCEPT !.key = k, !.verse_progression = p,
                                          !.pc = "chords"]
          ELSE \E p \in Walks(SongBars, TRUE,
                              build.verse_progression[
                                  Len(build.verse_progression)]) :
                   build' = [build EXCEPT !.chorus_progression = p,
                                          !.pc = "chords"]
    /\ UNCHANGED <<callVars, timing, load, call, drums, dispatch>>

\* Lines 251-253 (286-287): one chord of the chord track: the chord's event
\* and seven None.
BChords ==
    /\ build.pc = "chords"
    /\ build' = LoopStep(Grown(build, "chords", 1 + ChordRests), "chords")
    /\ UNCHANGED <<callVars, timing, load, call, drums, dispatch>>

\* Lines 256-258: one chord of the rhythm chords: four (strong, weak) pairs.
BRhythm ==
    /\ build.pc = "rhythm_chords"
    /\ build' = LoopStep(Grown(build, "rhythm_chords", 2 * RhythmPairs),
                         "rhythm_chords")
    /\ UNCHANGED <<callVars, timing, load, call, drums, dispatch>>

\* Lines 261-265 (290-294): one chord of the arpeggio: every note of the
\* chord, padded to four notes, followed by a None.
BArp ==
    /\ build.pc = "arp"
    /\ LET chord == BuildProgression(build)[build.idx + 1]
           notes_ == get_chord(chord, note_number(build.key \o <<"2">>).value)
       IN  build' = LoopStep(Grown(build, "arp", 2 * Len(ArpNotes(notes_))),
                             "arp")
    /\ UNCHANGED <<callVars, timing, load, call, drums, dispatch>>

\* Lines 269-271, 273 (295-297, 299): the snare pattern of range(8) slots,
\* sixteen times.
BSnare ==
    /\ build.pc = "snare"
    /\ build' = [Grown(build, "snare", PatternSteps * DrumTiles)
                     EXCEPT !.pc = "bass"]
    /\ UNCHANGED <<callVars, timing, load, call, drums, dispatch>>

\* Lines 272, 274 (298, 300): the bass-drum pattern, sixteen times.
BBass ==
    /\ build.pc = "bass"
    /\ build' = [Grown(build, "bass", PatternSteps * DrumTiles)
                     EXCEPT !.pc = "hihat"]
    /\ UNCHANGED <<callVars, timing, load, call, drums, dispatch>>

\* Line 275 (301): two hi-hat events 64 times if randint(0, 1), else 128
\* None.
BHihat ==
    /\ build.pc = "hihat"
    /\ \E r \in randint(0, 1) :
           build' = [Grown(build, "hihat",
                           IF r # 0 THEN 2 * HihatTiles ELSE GridSteps)
                         EXCEPT !.pc = "melody"]
    /\ UNCHANGED <<callVars, timing, load, call, drums, dispatch>>

\* Lines 276-277 (302-303): melody_repeats is drawn and generate_melody is
\* called with the verse's progression (for the chorus too); what it
\* returns has passed the assertion of line 232.
BMelody ==
    /\ build.pc = "melody"
    /\ \E m \in MelodyRepeatsDraws :
           build' = [Grown(build, "melody",
                           StepsPerBar * Len(build.verse_progression) * m)
                         EXCEPT !.melody_repeats = m, !.pc = "double"]
    /\ UNCHANGED <<callVars, timing, load, call, drums, dispatch>>

\* Lines 278-279 (304-305): a melody of two repeats is doubled.  The
\* section is complete; the chorus follows the verse.
BDouble ==
    /\ build.pc = "double"
    /\ LET b == IF build.melody_repeats = 2
                   THEN Grown(build, "melody",
                              build.lens[build.section]["melody"])
                   ELSE build
       IN  build' = IF build.section = "verse"
                       THEN [b EXCEPT !.section = "chorus",
                                      !.pc = "progression"]
                       ELSE [b EXCEPT !.pc = "done"]
    /\ UNCHANGED <<callVars, timing, load, call, drums, dispatch>>

(***************************************************************************)
(* The construction of triad_notes at module level (lines 64-81), and      *)
(* get_chord called on the table (lines 151-158).                         *)
(***************************************************************************)

\* Lines 75-81, in order: (the new symbol, the symbol it is derived from).
minor_derivations ==
    << <<"i", "I">>, <<"ii", "II">>, <<"iii", "III">>, <<"iv", "IV">>,
       <<"v", "V">>, <<"vi", "VI">>, <<"vii", "VII">> >>

\* The table after a major_chord_to_minor that lowers the list it reads
\* (minor = triad_notes[symbol], without the copy).
TableAfterMinorAliased(tn, symbol) == [tn EXCEPT ![symbol][2] = @ - 1]

\* The table after major_chord_to_minor(symbol) has run: line 56 copies
\* the list (list(...)), line 57 changes the copy, tn keeps its entries.
TableAfterMinor(tn, symbol) == tn

\* The symbols get_chord is called with, and the base notes: the symbols of
\* both transition graphs and of the table, and one no table has;
\* note_number(key + '2') for every key.
ChordArgs ==
    DOMAIN transitions_major \cup DOMAIN transitions_minor
        \cup DOMAIN triad_notes \cup {"VIII"}

BaseNoteArgs ==
    { note_number(keys_in_octave[k] \o <<"2">>).value :
          k \in 1..Len(keys_in_octave) }

\* Line 64-74: triad_notes as written out; nothing derived yet.
TableInit ==
    load = [pc |-> "derive", triads |-> triad_notes_declared, done |-> 0,
             symbol |-> None, base_note |-> 0, result |-> <<>>]

\* The next of lines 75-81:
\* triad_notes[new] = major_chord_to_minor(symbol).
TDerive ==
    /\ load.pc = "derive"
    /\ load.done < Len(minor_derivations)
    /\ LET new == minor_derivations[load.done + 1][1]
           symbol == minor_derivations[load.done + 1][2]
           minor == major_chord_to_minor(load.triads, symbol)
           after == TableAfterMinor(load.triads, symbol)
       IN  load' =
               [load EXCEPT
                  !.triads = [c \in DOMAIN after \cup {new} |->
                                  IF c = new THEN minor ELSE after[c]],
                  !.done = @ + 1]
    /\ UNCHANGED <<callVars, timing, build, call, drums, dispatch>>

\* get_chord(symbol, base_note), lines 151-158, called once the module is
\* loaded: the chord, or KeyError for a symbol the table does not have.
TGetChord ==
    /\ load.pc = "derive"
    /\ load.done = Len(minor_derivations)
    /\ \E symbol \in ChordArgs, base_note \in BaseNoteArgs :
           load' =
               [load EXCEPT
                  !.symbol = symbol,
                  !.base_note = base_note,
                  !.pc = IF symbol \in DOMAIN load.triads
                            THEN "returned" ELSE "KeyError",
                  !.result =
                      IF symbol \in DOMAIN load.triads
                         THEN [n \in 1..Len(load.triads[symbol]) |->
                                   load.triads[symbol][n] + base_note]
                         ELSE <<>>]
    /\ UNCHANGED <<callVars, timing, build, call, drums, dispatch>>

(***************************************************************************)
(* note_number called with a string (lines 124-138).                       *)
(***************************************************************************)

\* The strings note_number is called with: the empty string, and a first
\* character (a letter of A..G, a letter outside it, in either case, or no
\* letter), then nothing, an accidental or another character, then up to
\* MaxOctaveDigits digits.
NoteArgs ==
    {<<>>} \cup
    { <<first>> \o second \o octave :
          first \in {"A", "B", "C", "D", "E", "F", "G", "H", "Z",
                     "a", "g", "h", "4", "#"},
          second \in {<<>>, <<"#">>, <<"b">>, <<"x">>},
          octave \in UNION { [1..n -> {"0", "2", "4", "9"}] :
                                 n \in 0..MaxOctaveDigits } }

\* note_number(note): the call returns the MIDI number or raises.
NNCall ==
    /\ call.pc = "call"
    /\ LET r == note_number(call.note)
       IN  call' = [call EXCEPT
                      !.pc = IF r.error = "none" THEN "returned" ELSE r.error,
                      !.value = r.value]
    /\ UNCHANGED <<callVars, timing, build, load, drums, dispatch>>

(***************************************************************************)
(* __main__: the snare and bass-drum tracks (lines 268-274 for the verse,  *)
(* the same statements at lines 295-300 for the chorus).  An event is the  *)
(* tuple (note, velocity, duration), the duration in thousandths.          *)
(***************************************************************************)

\* None in a track list: the slot holds no event.
Rest == <<>>

\* Line 268: ghost_note_penalty = 1.
ghost_note_penalty == 1

\* The duration 0.03 of a drum event (lines 273-275), in thousandths.
DrumDuration == 30

\* The velocity of the backbeat (lines 270-271).
BackbeatVelocity == 80

\* randint(a, b) at its VelEnds lowest values and its highest value.
SampleDraws(a, b) ==
    { v \in randint(a, b) : v < a + VelEnds \/ v = b }

\* A bass drum drawn at every slot, the backbeat included.
DrumDrawsAnywhere(drum, n) ==
    IF drum = "snare"
       THEN { IF gate # 0 THEN v ELSE 0 :
                  gate \in { r \div ghost_note_penalty :
                                 r \in randint(0, ghost_note_penalty) },
                  v \in SampleDraws(20, 50) }
       ELSE { IF gate # 0 THEN v ELSE 0 :
                  gate \in { r \div (2 * ghost_note_penalty) :
                                 r \in randint(0, 2 * ghost_note_penalty) },
                  v \in SampleDraws(30, 80) }

\* What slot n (0..7) of a pattern can be drawn as.  Snare, line 269:
\* randint(20, 50) if int(randint(0, ghost_note_penalty)*1.0/
\* ghost_note_penalty) else 0.  Bass, line 272: randint(30, 80) if
\* int(randint(0, 2*ghost_note_penalty)/(2.0*ghost_note_penalty)) and
\* i not in (2, 6) else 0.
DrumDraws(drum, n) ==
    IF drum = "snare"
       THEN { IF gate # 0 THEN v ELSE 0 :
                  gate \in { r \div ghost_note_penalty :
                                 r \in randint(0, ghost_note_penalty) },
                  v \in SampleDraws(20, 50) }
       ELSE { IF gate # 0 /\ n \notin {2, 6} THEN v ELSE 0 :
                  gate \in { r \div (2 * ghost_note_penalty) :
                                 r \in randint(0, 2 * ghost_note_penalty) },
                  v \in SampleDraws(30, 80) }

\* A drum slot that keeps the event of velocity 0.
DrumSlotKeepsZero(drum, x) ==
    << note_number(IF drum = "snare" THEN <<"G", "1">>
                                     ELSE <<"C", "1">>).value,
       x, DrumDuration >>

\* Lines 273-274: (note_number('G1'), x, 0.03) if x else None, and the same
\* with 'C1' for the bass drum.
DrumSlot(drum, x) ==
    IF x # 0
       THEN << note_number(IF drum = "snare" THEN <<"G", "1">>
                                             ELSE <<"C", "1">>).value,
               x, DrumDuration >>
       ELSE Rest

\* The lists the comprehension of line 269 or 272 can yield for the slots
\* range(len).
RECURSIVE Patterns(_, _)
Patterns(drum, len) ==
    IF len = 0 THEN {<<>>}
    ELSE { Append(pattern, x) : pattern \in Patterns(drum, len - 1),
                                x \in DrumDraws(drum, len - 1) }

\* Line 269 or 272: the list comprehension over range(8).
DPattern ==
    /\ drums.pc = "pattern"
    /\ \E pattern \in Patterns(drums.drum, PatternSteps) :
           drums' = [drums EXCEPT
                       !.pattern = pattern,
                       !.pc = IF drums.drum = "snare"
                                 THEN "backbeat2" ELSE "tile"]
    /\ UNCHANGED <<callVars, timing, build, load, call, dispatch>>

\* Line 270 (k = 2) and line 271 (k = 6): snare[k] = 80.
DBackbeat(k) ==
    /\ drums.pc = IF k = 2 THEN "backbeat2" ELSE "backbeat6"
    /\ drums' = [drums EXCEPT
                   !.pattern[k + 1] = BackbeatVelocity,
                   !.pc = IF k = 2 THEN "backbeat6" ELSE "tile"]
    /\ UNCHANGED <<callVars, timing, build, load, call, dispatch>>

\* Line 273 or 274: the pattern's slots, sixteen times.
DTile ==
    /\ drums.pc = "tile"
    /\ drums' = [drums EXCEPT
                   !.track = [n \in 1..(PatternSteps * DrumTiles) |->
                                  DrumSlot(drums.drum,
                                           drums.pattern[
                                               ((n - 1) % PatternSteps) + 1])],
                   !.pc = "done"]
    /\ UNCHANGED <<callVars, timing, build, load, call, dispatch>>

(***************************************************************************)
(* __main__: the instruments (lines 307-316) and what a playback loop does *)
(* with the slot of a track at a grid step (lines 320-383).                *)
(***************************************************************************)

\* Lines 307-310: (channel, pitch offset), violin and cello only when
\* tempo <= 140.
Instruments(tempo) ==
    << <<4, 0>>, <<5, 0>>, <<6, 0>>, <<7, 0>>, <<8, 0>> >>
        \o (IF tempo <= 140 THEN << <<9, 0 - 12>>, <<10, 12>> >> ELSE <<>>)

\* The slots the loops can find in the tracks of a song in key k at a step
\* of a bar with the given chord, each with the channel the loop plays it
\* on: kind "chord" for the tracks of lines 321-324 (the event holds a list
\* of notes), kind "event" for the list of lines 325-330 and 375-381.
\* Drum velocities and melody lengths are taken at the ends of their ranges.
Slots(k, chord, tempo) ==
    LET base == note_number(k \o <<"2">>).value
        notes_ == get_chord(chord, base)
        arp == { <<ArpNotes(notes_)[n], 80, 250>> :
                     n \in 1..Len(ArpNotes(notes_)) }
        bass_arp_instrument == { <<3, 11>>[r + 1] : r \in randint(0, 1) }
        drum_instrument == { <<2, 12, 13, 14>>[r + 1] : r \in randint(0, 3) }
        instrument == { Instruments(tempo)[r + 1] :
                            r \in randint(0, Len(Instruments(tempo)) - 1) }
        snare == UNION { DrumDraws("snare", n) : n \in 0..(PatternSteps - 1) }
                     \cup {BackbeatVelocity}
        bass == UNION { DrumDraws("bass", n) : n \in 0..(PatternSteps - 1) }
        hihat == { <<note_number(<<"C", "#", "2">>).value, 70, DrumDuration>>,
                   <<note_number(<<"C", "#", "2">>).value, 40, DrumDuration>>,
                   Rest }
        pitches == Range(ChordTones(k, chord))
                       \cup Range(NonChordTones(k, chord, TRUE))
        lengths == { note_vals[1][1], note_vals[Len(note_vals)][1] }
        Slot(kind, event, channel) ==
            [kind |-> kind, event |-> event, channel |-> channel]
    IN  \* lines 321-322: verse_chords[i], channel 0
        { Slot("chord", e, 0) : e \in { <<notes_, 80, Bar>>, Rest } }
        \* lines 323-324: verse_rhythm_chords[i], channel 1
        \cup { Slot("chord", <<notes_, v, Eighth>>, 1) : v \in {80, 60} }
        \* line 325: (verse_arp[i], 1)
        \cup { Slot("event", e, 1) : e \in arp \cup {Rest} }
        \* line 326: the arpeggio an octave lower, or None
        \cup { Slot("event", e, c) :
                   e \in { <<a[1] - 12, a[2], a[3]>> : a \in arp } \cup {Rest},
                   c \in bass_arp_instrument }
        \* lines 327-329: snare, bass drum and hi-hat
        \cup { Slot("event", e, c) :
                   e \in { DrumSlot("snare", x) : x \in snare }
                           \cup { DrumSlot("bass", x) : x \in bass }
                           \cup hihat,
                   c \in drum_instrument }
        \* line 330: the melody, moved by the instrument's offset, or None
        \cup { Slot("event", <<pitch + ins[2], 80, len>>, ins[1]) :
                   pitch \in pitches, len \in lengths, ins \in instrument }
        \cup { Slot("event", Rest, ins[1]) : ins \in instrument }
        \* line 380: the closing drum hit
        \cup { Slot("event", <<note_number(<<"D", "3">>).value, 90, 100>>, c) :
                   c \in drum_instrument }
        \* line 381: verse_arp[0][0] + offset with the melody's velocity
        \cup { Slot("event", <<notes_[1] + ins[2], 80, len>>, ins[1]) :
                   len \in lengths, ins \in instrument }

\* Lines 321-336: the play() calls made for the slot, as (note, vel,
\* channel).  "for note in slot[0] if slot else []" for a chord track;
\* "if event[0]: play(event[0][0], event[0][1], ..., channel=event[1])" for
\* the others.
DPlay ==
    /\ dispatch.pc = "slot"
    /\ LET event == dispatch.event
           Call(note) ==
               [note |-> note, vel |-> event[2], channel |-> dispatch.channel]
       IN  dispatch' =
               [dispatch EXCEPT
                  !.calls =
                      IF event = Rest THEN <<>>
                      ELSE IF dispatch.kind = "chord"
                              THEN [n \in 1..Len(event[1]) |->
                                        Call(event[1][n])]
                              ELSE <<Call(event[1])>>,
                  !.pc = "played"]
    /\ UNCHANGED <<callVars, timing, build, load, call, drums>>

\* Lines 95-110 for every call: the thread sends its note_on and then its
\* note_off.
DSend ==
    /\ dispatch.pc = "played"
    /\ dispatch' =
           [dispatch EXCEPT
              !.sent = [n \in 1..(2 * Len(dispatch.calls)) |->
                            IF n % 2 = 1
                               THEN NoteOnMsg(dispatch.calls[(n + 1) \div 2])
                               ELSE NoteOffMsg(dispatch.calls[n \div 2])],
              !.pc = "sent"]
    /\ UNCHANGED <<callVars, timing, build, load, call, drums>>

(***************************************************************************)
(* Swing timing: __main__, lines 237-244, 324 and 331-337.                 *)
(*                                                                         *)
(* The durations are Python floats, IEEE 754 binary64 numbers, and every   *)
(* literal, division, product and sum is rounded to the nearest of them    *)
(* (ties to the even mantissa).  A float is modelled by what it holds: a   *)
(* mantissa m with 2^52 <= m < 2^53 and an exponent e, standing for        *)
(* m * 2^e.  The mantissa is a sequence of limbs in base 2^14, lowest      *)
(* first, without high zero limbs, so that no step of the arithmetic       *)
(* leaves 32 bits.  All the values met here are normal numbers.            *)
(***************************************************************************)

LimbBits == 14

Limb == 2^LimbBits

\* Limb k of a, which is 0 above its length.
Digit(a, k) == IF k <= Len(a) THEN a[k] ELSE 0

\* The limbs of the number whose columns are cols, with carry c coming in.
RECURSIVE Carry(_, _)
Carry(cols, c) ==
    IF cols = <<>>
    THEN IF c = 0 THEN <<>> ELSE <<c % Limb>> \o Carry(<<>>, c \div Limb)
    ELSE LET s == Head(cols) + c
         IN  <<s % Limb>> \o Carry(Tail(cols), s \div Limb)

BigAdd(a, b) ==
    LET n == IF Len(a) >= Len(b) THEN Len(a) ELSE Len(b)
    IN  Carry([k \in 1..n |-> Digit(a, k) + Digit(b, k)], 0)

BigMul(a, b) ==
    LET RECURSIVE Column(_, _)
        \* the sum of a[j] * b[k + 1 - j] over j in 1..n
        Column(k, n) ==
            IF n = 0 THEN 0
            ELSE Column(k, n - 1)
                 + (IF k + 1 - n >= 1 THEN a[n] * Digit(b, k + 1 - n) ELSE 0)
    IN  Carry([k \in 1..(Len(a) + Len(b) - 1) |-> Column(k, Len(a))], 0)

\* Quotient and remainder of a by the small number d.
RECURSIVE BigDivSmall(_, _)
BigDivSmall(a, d) ==
    IF a = <<>> THEN [q |-> <<>>, r |-> 0]
    ELSE LET high == BigDivSmall(Tail(a), d)
             cur == high.r * Limb + Head(a)
         IN  [q |-> IF high.q = <<>> /\ cur \div d = 0 THEN <<>>
                    ELSE <<cur \div d>> \o high.q,
              r |-> cur % d]

\* The float nearest to n * 2^e for a number n of at least 2^53; sticky
\* tells that the exact value lies above n * 2^e, by less than 2^e.  All
\* but the highest 54 bits of n are dropped, the lowest of these 54 is the
\* rounding bit, and a tie goes to the even mantissa.
Round(n, e, sticky) ==
    LET top == n[Len(n)]
        bits == LimbBits * (Len(n) - 1)
                + (CHOOSE k \in 1..LimbBits : 2^(k - 1) <= top /\ top < 2^k)
        s == bits - 54
        limbs == s \div LimbBits
        d == BigDivSmall(SubSeq(n, limbs + 1, Len(n)), 2^(s % LimbBits))
        inexact == sticky \/ d.r # 0 \/ \E k \in 1..limbs : n[k] # 0
        half == BigDivSmall(d.q, 2)
        up == half.r = 1 /\ (inexact \/ half.q[1] % 2 = 1)
        m == IF up THEN BigAdd(half.q, <<1>>) ELSE half.q
    IN  IF m[4] >= 2^11
        THEN [m |-> BigDivSmall(m, 2).q, e |-> e + s + 2]
        ELSE [m |-> m, e |-> e + s + 1]

\* The float of the quotient n / d of two small whole numbers: a literal
\* such as 0.667 (667 / 1000), or 60.0/tempo.
FDivInt(n, d) ==
    LET q == BigDivSmall(<<0, 0, 0, 0, 0, n>>, d)
    IN  Round(q.q, -(5 * LimbBits), q.r # 0)

\* x * y
FMul(x, y) == Round(BigMul(x.m, y.m), x.e + y.e, FALSE)

\* x + y
FAdd(x, y) ==
    LET hi == IF x.e >= y.e THEN x ELSE y
        lo == IF x.e >= y.e THEN y ELSE x
        RECURSIVE Shl(_, _)
        Shl(a, s) == IF s = 0 THEN a ELSE Shl(BigAdd(a, a), s - 1)
    IN  Round(BigAdd(Shl(hi.m, hi.e - lo.e), lo.m), lo.e, FALSE)

\* The nominal durations of the events of the tracks, in thousandths of a
\* bar: 0.25 (line 265), 0.03 (lines 273-275) and the note values of
\* generate_melody (line 210).  No two of them round to the same float, so
\* the test event[0][2] == 0.125 of line 332 is the test for 125.
NominalDurations == {30, 125, 250, 375, 500, 750, 1000, 1250, 1500}

\* The float a literal of the program stands for, by its thousandths: the
\* nominal durations, the factors of lines 324, 333 and 337, and the 4 of
\* "*4", which the product turns into 4.0.
Literal ==
    [n \in NominalDurations \cup {83, 167, 333, 667, 4000} |->
        FDivInt(n, 1000)]

\* Line 337: what the loop sleeps after step n.
SleepSeconds(sw, n, spb) ==
    FMul(IF sw THEN IF n % 2 = 0 THEN Literal[667] ELSE Literal[333]
         ELSE Literal[500],
         spb)

\* Line 324: how long a note of the rhythm chord of step n is played.
RhythmSeconds(sw, n, spb) ==
    FMul(FMul(IF sw THEN IF n % 2 = 0 THEN Literal[167] ELSE Literal[83]
              ELSE Literal[125],
              spb),
         Literal[4000])

EventSecondsEvenUnswung(sw, n, nominal, spb) ==
    LET duration ==
            IF sw /\ nominal = 125
            THEN IF n % 2 = 0 THEN Literal[125] ELSE Literal[83]
            ELSE Literal[nominal]
    IN  FMul(FMul(duration, spb), Literal[4000])

\* Lines 331-336: how long an event of step n with the nominal duration
\* nominal is played.
EventSeconds(sw, n, nominal, spb) ==
    LET duration ==
            IF sw /\ nominal = 125
            THEN IF n % 2 = 0 THEN Literal[167] ELSE Literal[83]
            ELSE Literal[nominal]
    IN  FMul(FMul(duration, spb), Literal[4000])

\* What lines 239, 324 and 331-337 compute at a step of parity p, for every
\* tempo line 237 can draw: the operators above, evaluated once for each
\* tempo.
StepSeconds ==
    [tempo \in randint(100, 200) |->
        LET spb == FDivInt(60, tempo)
        IN  [seconds_per_beat |-> spb,
             sleep |-> [sw \in BOOLEAN, p \in 0..1 |->
                           SleepSeconds(sw, p, spb)],
             rhythm |-> [sw \in BOOLEAN, p \in 0..1 |->
                            RhythmSeconds(sw, p, spb)],
             event |-> [sw \in BOOLEAN, p \in 0..1,
                        nominal \in NominalDurations |->
                           EventSeconds(sw, p, nominal, spb)]]]

\* Before line 237.
SwingInit == timing = [pc |-> "tempo"]

\* Lines 237-244: the tempo and the swing feel are drawn.
STempo ==
    /\ timing.pc = "tempo"
    /\ \E tempo \in randint(100, 200), sw \in BOOLEAN :
           timing' = [pc |-> "step", tempo |-> tempo, swing |-> sw,
                      seconds_per_beat |-> StepSeconds[tempo].seconds_per_beat,
                      i |-> 0,
                      rhythm |-> <<>>, events |-> <<>>, sleeps |-> <<>>]
    /\ UNCHANGED <<callVars, build, load, call, drums, dispatch>>

\* Lines 320-337, one step of the loop with a rhythm chord and an event of
\* the list of line 325.  timing keeps what was played and slept in the pair
\* of steps (an even step and the next one) the loop is in.
SStep ==
    /\ timing.pc = "step"
    /\ timing.i < SwingSteps
    /\ \E nominal \in NominalDurations :
           LET n == timing.i
               seconds == StepSeconds[timing.tempo]
               rhythm == seconds.rhythm[timing.swing, n % 2]
               event == [nominal |-> nominal,
                         duration |-> seconds.event[timing.swing, n % 2,
                                                    nominal]]
               sleep == seconds.sleep[timing.swing, n % 2]
           IN  timing' =
                   [timing EXCEPT
                       !.i = n + 1,
                       !.rhythm = IF n % 2 = 0 THEN <<rhythm>>
                                  ELSE Append(@, rhythm),
                       !.events = IF n % 2 = 0 THEN <<event>>
                                  ELSE Append(@, event),
                       !.sleeps = IF n % 2 = 0 THEN <<sleep>>
                                  ELSE Append(@, sleep)]
    /\ UNCHANGED <<callVars, build, load, call, drums, dispatch>>

(***************************************************************************)
(* The specifications.                                                     *)
(***************************************************************************)

\* The variables of the other parts while playback, generate_progression or
\* generate_melody is looked at.
OtherIdle ==
    /\ build = Idle /\ load = Idle /\ call = Idle /\ drums = Idle
    /\ dispatch = Idle /\ timing = Idle

Init == PlayInit /\ ProgIdle /\ MelodyIdle /\ OtherIdle

Next ==
    \/ Play
    \/ StepSleep
    \/ \E t \in ThreadIds : AcquireOn(t)
    \/ \E t \in ThreadIds : SendOn(t)
    \/ \E t \in ThreadIds : SendOnRaise(t)
    \/ \E t \in ThreadIds : AcquireOff(t)
    \/ \E t \in ThreadIds : SendOff(t)
    \/ \E t \in ThreadIds : SendOffRaise(t)

Spec == Init /\ [][Next]_vars

\* The interpreter keeps scheduling runnable threads: the main thread keeps
\* taking steps while it can, and so does some note thread while one can (a
\* free lock is granted to a waiting thread).  Every scheduler that is fair
\* to each thread satisfies this.
NoteThreads == \E t \in ThreadIds : ThreadStep(t)

FairSpec == Spec /\ WF_vars(Driver) /\ WF_vars(NoteThreads)

ProgNext ==
    \/ GPFirst
    \/ GPFirstKeyError
    \/ GPAppend
    \/ GPReturn

ProgSpecInit == PlayIdle /\ ProgInit /\ MelodyIdle /\ OtherIdle

ProgSpec == ProgSpecInit /\ [][ProgNext]_vars

MelodyNext ==
    \/ GMRepeatBegin
    \/ GMChordBegin
    \/ GMNote
    \/ GMChordEnd
    \/ GMRepeatEnd
    \/ GMReturn

MelodySpecInit == PlayIdle /\ ProgIdle /\ MelodyInit /\ OtherIdle

MelodySpec == MelodySpecInit /\ [][MelodyNext]_vars

\* generate_melody called with any of the twelve keys (line 242), either
\* mode, and any one chord of the mode's graph.
PitchSpecInit ==
    /\ PlayIdle /\ ProgIdle /\ OtherIdle
    /\ key \in Range(keys_in_octave)
    /\ major \in BOOLEAN
    /\ progression \in PitchProgressions(major)
    /\ progression_repeats = 1
    /\ rep = 0
    /\ chord_i = 0
    /\ time_used = 0
    /\ last_played = NoPitch
    /\ out_len = 0
    /\ chord_tones = <<>>
    /\ non_chord_tones = <<>>
    /\ gm_pc = "repeat"

PitchSpec == PitchSpecInit /\ [][MelodyNext]_vars

\* The playback, generate_progression and generate_melody variables while
\* another part is looked at.
CallIdle == PlayIdle /\ ProgIdle /\ MelodyIdle

BuildNext ==
    \/ BProgression
    \/ BChords
    \/ BRhythm
    \/ BArp
    \/ BSnare
    \/ BBass
    \/ BHihat
    \/ BMelody
    \/ BDouble

BuildSpecInit ==
    /\ CallIdle /\ timing = Idle
    /\ BuildInit /\ load = Idle /\ call = Idle /\ drums = Idle
    /\ dispatch = Idle

BuildSpec == BuildSpecInit /\ [][BuildNext]_vars

TableNext ==
    \/ TDerive
    \/ TGetChord

TableSpecInit ==
    /\ CallIdle /\ timing = Idle
    /\ build = Idle /\ TableInit /\ call = Idle /\ drums = Idle
    /\ dispatch = Idle

TableSpec == TableSpecInit /\ [][TableNext]_vars

NoteSpecInit ==
    /\ CallIdle /\ timing = Idle
    /\ build = Idle /\ load = Idle /\ drums = Idle
    /\ dispatch = Idle
    /\ \E note \in NoteArgs : call = [pc |-> "call", note |-> note, value |-> 0]

NoteSpec == NoteSpecInit /\ [][NNCall]_vars

DrumNext ==
    \/ DPattern
    \/ DBackbeat(2)
    \/ DBackbeat(6)
    \/ DTile

DrumSpecInit ==
    /\ CallIdle /\ timing = Idle
    /\ build = Idle /\ load = Idle /\ call = Idle
    /\ dispatch = Idle
    /\ \E drum \in {"snare", "bass"} :
           drums = [pc |-> "pattern", drum |-> drum, pattern |-> <<>>,
                    track |-> <<>>]

DrumSpec == DrumSpecInit /\ [][DrumNext]_vars

\* Any key (line 242), any chord of the major graph (line 241), a tempo on
\* either side of the test of line 309, and any slot.
DispatchSpecInit ==
    /\ CallIdle /\ timing = Idle
    /\ build = Idle /\ load = Idle /\ call = Idle
    /\ drums = Idle
    /\ \E k \in Range(keys_in_octave), chord \in DOMAIN transitions_major,
          tempo \in {140, 141} :
           \E slot \in Slots(k, chord, tempo) :
               dispatch = [pc |-> "slot", kind |-> slot.kind,
                           event |-> slot.event, channel |-> slot.channel,
                           calls |-> <<>>, sent |-> <<>>]

DispatchSpec == DispatchSpecInit /\ [][DPlay \/ DSend]_vars

SwingNext ==
    \/ STempo
    \/ SStep

SwingSpecInit ==
    /\ CallIdle /\ build = Idle /\ load = Idle /\ call = Idle
    /\ drums = Idle /\ dispatch = Idle
    /\ SwingInit

SwingSpec == SwingSpecInit /\ [][SwingNext]_vars

(***************************************************************************)
(* Properties of the playback.                                             *)
(***************************************************************************)

Sending(t) == threads[t].pc \in {"note_on", "note_off"}

SentNoteOn(t) ==
    /\ Len(threads[t].sent) >= 1
    /\ threads[t].sent[1] = NoteOnMsg(threads[t])

SentNoteOff(t) ==
    \E n \in 1..Len(threads[t].sent) :
        threads[t].sent[n].type = "note_off"

\* The messages a complete lifecycle sends: its note_on, then one note_off
\* with the note, velocity and channel play() was called with.
FullLifecycle(t) ==
    << [type |-> "note_on", note |-> threads[t].note,
        velocity |-> threads[t].vel, channel |-> threads[t].channel],
       [type |-> "note_off", note |-> threads[t].note,
        velocity |-> threads[t].vel, channel |-> threads[t].channel] >>

AnyAborted == \E t \in ThreadIds : threads[t].pc = "aborted"

\* C1: the note_on of every event launched at step n has been sent before
\* the playback loop starts dispatching step n+1 (a thread whose send raised
\* is left aside).
C1_NoteOnBeforeNextStep ==
    \A t \in ThreadIds :
        (threads[t].step < i /\ threads[t].pc # "aborted") => SentNoteOn(t)

\* C2: at most one thread is inside output.send (note_on or note_off).
C2_MutualExclusion ==
    Cardinality({ t \in ThreadIds : Sending(t) }) <= 1

\* C2 witness: one thread is sending while two others wait for the lock, one
\* for its note_on and one (after its sleep) for its note_off.
C2_Witness ==
    \E t, u, w \in ThreadIds :
        /\ Sending(t)
        /\ threads[u].pc = "start"
        /\ threads[w].pc = "sleep"

\* C3: whenever mido_mutex is held, its holder is a thread inside a send; a
\* thread that has not acquired yet, sleeps, has returned or was ended by an
\* exception does not hold it.
C3_LockHeldOnlyInSend ==
    /\ mido_mutex # Unlocked =>
           (mido_mutex \in ThreadIds /\ Sending(mido_mutex))
    /\ \A t \in ThreadIds :
           threads[t].pc \in {"start", "sleep", "done", "aborted"}
               => mido_mutex # t

\* C3 witness: one thread sleeps, one returned normally, one was ended by a
\* raising send, and none of them holds the lock.
C3_Witness ==
    \E t, u, w \in ThreadIds :
        /\ threads[t].pc = "sleep"
        /\ threads[u].pc = "done"
        /\ threads[w].pc = "aborted"
        /\ mido_mutex = Unlocked

\* C4: what a lifecycle has sent is always a prefix of (note_on, note_off)
\* with the arguments of its play() call, and, unless some send fails, every
\* launched lifecycle eventually returns having sent both.
C4_NoteOffFollowsNoteOn ==
    /\ [](\A t \in ThreadIds :
             /\ Len(threads[t].sent) <= 2
             /\ threads[t].sent =
                    SubSeq(FullLifecycle(t), 1, Len(threads[t].sent)))
    /\ <>(\/ AnyAborted
          \/ /\ i = NumSteps
             /\ Len(threads) = CountNotes(grid)
             /\ \A t \in ThreadIds :
                    /\ threads[t].pc = "done"
                    /\ threads[t].sent = FullLifecycle(t))

\* C4 witness: no send failed, and as many lifecycles as the grid allows
\* have all returned after both sends.
C4_Witness ==
    /\ Len(threads) = MaxNotes
    /\ \A t \in ThreadIds :
           threads[t].pc = "done" /\ threads[t].sent = FullLifecycle(t)

\* C5: a send that raises ends the thread that made it and no other; an
\* ended thread sends nothing further; every other launched lifecycle still
\* eventually sends its note_off, and the playback loop reaches its end.
C5_FailureIsolated ==
    /\ [][\A t \in ThreadIds :
              /\ (threads[t].pc # "aborted" /\ threads'[t].pc = "aborted")
                     => /\ mido_mutex = t
                        /\ \A u \in ThreadIds \ {t} : threads'[u] = threads[u]
              /\ threads[t].pc = "aborted" => threads'[t] = threads[t]]_vars
    /\ <>(/\ i = NumSteps
          /\ Len(threads) = CountNotes(grid)
          /\ \A t \in ThreadIds :
                 \/ threads[t].pc = "aborted"
                 \/ threads[t].pc = "done" /\ SentNoteOff(t))

\* C5 witness: the loop has reached its end, one lifecycle was ended by a
\* failed note_on and one by a failed note_off, and another lifecycle is
\* about to send its note_off.
C5_Witness ==
    \E t, u, w \in ThreadIds :
        /\ i = NumSteps
        /\ threads[t].pc = "aborted" /\ threads[t].sent = <<>>
        /\ threads[u].pc = "aborted" /\ Len(threads[u].sent) = 1
        /\ threads[w].pc = "note_off"

\* C15: the playback loop never waits for a lifecycle: while steps remain,
\* its next step (dispatching the next track of step i, or going from step
\* i to step i + 1) is enabled whatever the launched threads are doing and
\* whoever holds the lock.
C15_DriverNeverWaits ==
    i < NumSteps => ENABLED Driver

\* C15 witness: the loop is dispatching a later step while a thread launched
\* at an earlier step has not sent its note_off yet: it holds the lock and
\* sends it next, after the note_on of a note launched at the later step.
C15_Witness ==
    \E t, u \in ThreadIds :
        /\ i < NumSteps
        /\ threads[t].step < i
        /\ threads[u].step = i
        /\ SentNoteOn(u)
        /\ threads[t].pc = "note_off"
        /\ ~SentNoteOff(t)

(***************************************************************************)
(* Properties of generate_progression.                                     *)
(***************************************************************************)

\* C6: called with bars >= 1, generate_progression returns exactly bars
\* symbols, every adjacent pair (a, b) has b in graph[a], and the first
\* symbol is in graph[seed] when a seed is given and is a key of the graph
\* when none is.
C6_ProgressionFollowsGraph ==
    (gp_pc = "returned" /\ bars >= 1) =>
        LET graph == TransitionsFor(gp_major)
            InGraph(a, b) ==
                /\ a \in DOMAIN graph
                /\ \E n \in 1..Len(graph[a]) : graph[a][n] = b
        IN  /\ Len(gp_progression) = bars
            /\ \A n \in 1..(Len(gp_progression) - 1) :
                   InGraph(gp_progression[n], gp_progression[n + 1])
            /\ IF seed # None
                  THEN InGraph(seed, gp_progression[1])
                  ELSE gp_progression[1] \in DOMAIN graph

\* C6 witness: a progression of MaxBars bars in the minor graph, seeded with
\* a chord (as the chorus is seeded with the verse's last chord), returned.
C6_Witness ==
    /\ gp_pc = "returned"
    /\ bars = MaxBars
    /\ ~gp_major
    /\ seed = "VII"
    /\ Len(gp_progression) = MaxBars

\* C7: called with bars < 1, generate_progression returns no progression.
C7_RejectsBarsBelowOne ==
    bars < 1 => gp_pc # "returned"

(***************************************************************************)
(* Properties of generate_melody.                                          *)
(***************************************************************************)

\* The test of "while time_used < i + 1" is about to be made and fails: the
\* inner loop of the chord at index chord_i ends.
ChordLoopExits == gm_pc = "while" /\ ~(time_used < Bar * (chord_i + 1))

\* The test is about to be made and succeeds: a note length is drawn next.
DurationDraw == gm_pc = "while" /\ time_used < Bar * (chord_i + 1)

\* The enumeration of the progression is exhausted: a repeat ends.
RepeatEnds == gm_pc = "chord" /\ ~(chord_i < Len(progression))

\* C8: every repeat ends with time_used exactly len(progression) bars, and
\* generate_melody ends with 8 * len(progression) * progression_repeats
\* slots in out: the assertion of line 232 holds and out is returned.
C8_MelodyFillsGrid ==
    /\ RepeatEnds => time_used = Bar * Len(progression)
    /\ (gm_pc = "repeat" /\ ~(rep < progression_repeats)) =>
           out_len = StepsPerBar * Len(progression) * progression_repeats
    /\ gm_pc # "AssertionError"
    /\ gm_pc = "returned" =>
           out_len = StepsPerBar * Len(progression) * progression_repeats

\* C8 witness: the longest progression, repeated as often as possible, is
\* returned with all its slots.
C8_Witness ==
    /\ gm_pc = "returned"
    /\ Len(progression) = MaxProgLen
    /\ progression_repeats = MaxRepeats
    /\ rep = MaxRepeats
    /\ out_len = StepsPerBar * MaxProgLen * MaxRepeats

\* C9: at every duration draw the filtered list of lengths holds 0.125 (so
\* it is not empty and the draw does not fail), and time_used never exceeds
\* len(progression).
C9_ShortestLengthAlwaysFits ==
    /\ DurationDraw =>
           Eighth \in possible_note_vals(time_used, Len(progression))
    /\ gm_pc # "ValueError"
    /\ time_used <= Bar * Len(progression)

\* C9 witness: a draw with one eighth left in the last bar of the
\* progression, where 0.125 is the only length that fits.
C9_Witness ==
    /\ DurationDraw
    /\ time_used = Bar * Len(progression) - Eighth
    /\ possible_note_vals(time_used, Len(progression)) = {Eighth}

\* C10 as claimed: when the inner loop of the chord at index i ends,
\* time_used is exactly i + 1 and the chord has received a note
\* (last_played, reset for every chord, is a pitch again).
C10_ChordFillsExactlyOneBar ==
    ChordLoopExits =>
        /\ time_used = Bar * (chord_i + 1)
        /\ last_played # NoPitch

\* C10 as amended: when the inner loop of the chord at index i ends,
\* time_used is at least i + 1 and at most len(progression), and exactly
\* i + 1 for the last chord; the first chord has received a note, and a
\* chord that has received none finds its whole bar already used.
C10_ChordEndsWithinProgression ==
    ChordLoopExits =>
        /\ Bar * (chord_i + 1) <= time_used
        /\ time_used <= Bar * Len(progression)
        /\ chord_i + 1 = Len(progression) => time_used = Bar * (chord_i + 1)
        /\ chord_i = 0 => last_played # NoPitch
        /\ last_played = NoPitch => chord_i >= 1

\* C10 witness: the loop of a later chord ends at once, without a note,
\* because a note of an earlier chord ran to the end of the progression.
C10_Witness ==
    /\ ChordLoopExits
    /\ chord_i >= 1
    /\ last_played = NoPitch
    /\ time_used = Bar * Len(progression)

\* C17: the equal weighting of the candidates (every weight 1) is used at
\* the pitch draw of the first note of the whole melody and at no other:
\* once a note is in out, every draw weights the candidates by their
\* distance to the pitch generated before.
C17_UniformOnlyForFirstNote ==
    DurationDraw =>
        LET uniform ==
                \A pool \in {chord_tones, non_chord_tones} :
                    \A n \in 1..Len(pool) :
                        PitchWeight(last_played, pool[n]) = 1
        IN  uniform <=> out_len = 0

(***************************************************************************)
(* Properties of the track lists.                                          *)
(***************************************************************************)

\* The track lists of a section are complete: its melody statement is done.
SectionBuilt(section) ==
    \/ build.pc = "done"
    \/ section = "verse" /\ build.section = "chorus"

\* C11: every track list of the verse and of the chorus has exactly
\* 128 = 8 * 4 * 4 slots once the section is built, so no index i of the
\* playback loop (0..127) is past the end of a track.
C11_TracksHaveGridSteps ==
    /\ GridSteps = StepsPerBar * SongBars * SectionRepeats
    /\ \A section \in Sections :
           SectionBuilt(section) =>
               \A t \in TracksOf(section) :
                   /\ build.lens[section][t] = GridSteps
                   /\ \A n \in 0..(GridSteps - 1) : n < build.lens[section][t]

\* C11 witness: both sections are built, the verse has a chord of four
\* tones and one of three, the chorus has a chord of four tones, and the
\* chorus melody was generated with two repeats and doubled.
C11_Witness ==
    /\ build.pc = "done"
    /\ \E n, m \in 1..SongBars :
           /\ Len(triad_notes[build.verse_progression[n]]) = 4
           /\ Len(triad_notes[build.verse_progression[m]]) = 3
    /\ \E n \in 1..SongBars :
           Len(triad_notes[build.chorus_progression[n]]) = 4
    /\ build.melody_repeats = 2
    /\ build.lens["chorus"]["melody"] = GridSteps

(***************************************************************************)
(* Properties of triad_notes.                                              *)
(***************************************************************************)

\* C12: every derived minor entry present in triad_notes equals the major
\* entry it was derived from with the second interval lowered by exactly
\* one and the other intervals equal, and every declared entry keeps its
\* declared value through all derivations and get_chord calls; the table
\* the module ends with is triad_notes.
C12_MinorDerivedMajorKept ==
    /\ \A d \in 1..Len(minor_derivations) :
           LET new == minor_derivations[d][1]
               symbol == minor_derivations[d][2]
           IN  new \in DOMAIN load.triads <=> d <= load.done
    /\ \A d \in 1..load.done :
           LET minor == load.triads[minor_derivations[d][1]]
               declared == triad_notes_declared[minor_derivations[d][2]]
           IN  /\ Len(minor) = Len(declared)
               /\ minor[2] = declared[2] - 1
               /\ \A n \in 1..Len(declared) : n # 2 => minor[n] = declared[n]
    /\ \A c \in DOMAIN triad_notes_declared :
           load.triads[c] = triad_notes_declared[c]
    /\ load.done = Len(minor_derivations) => load.triads = triad_notes

\* C12 witness: all seven derivations are done and get_chord has returned
\* a derived minor chord built on the highest base note.
C12_Witness ==
    /\ load.done = Len(minor_derivations)
    /\ load.pc = "returned"
    /\ load.symbol = "vii"
    /\ load.base_note = 59
    /\ load.result = <<70, 73, 77>>

(***************************************************************************)
(* Properties of note_number.                                              *)
(***************************************************************************)

\* The argument is a letter outside A..G (in either case), an optional
\* accidental and octave digits, as "H4".
LetterOutsideAToG ==
    /\ call.note # <<>>
    /\ LET s == <<Upper(call.note[1])>> \o Tail(call.note)
       IN  /\ NoteMatches(s)
           /\ s[1] \notin {"A", "B", "C", "D", "E", "F", "G"}

\* C13: note_number called with a name whose letter is outside A..G fails
\* with the error raised for a string that does not match
\* <letter>[#|b]<digits> (the Exception of line 131), and returns no pitch.
C13_InvalidLetterIsBadNoteInput ==
    (call.pc # "call" /\ LetterOutsideAToG) => call.pc = "Exception"

(***************************************************************************)
(* Properties of the drum tracks.                                          *)
(***************************************************************************)

\* C16: in a section's drum track, at every grid step n with n mod 8 in
\* {2, 6} the snare holds a hit of velocity 80 and the bass drum holds no
\* event; at every other step the snare is a rest or a hit of velocity
\* 20..50 and the bass drum a rest or a hit of velocity 30..80.
C16_BackbeatAndGhostNotes ==
    drums.pc = "done" =>
        /\ Len(drums.track) = GridSteps
        /\ \A n \in 0..(GridSteps - 1) :
               LET event == drums.track[n + 1]
                   backbeat == n % 8 \in {2, 6}
               IN  IF drums.drum = "snare"
                      THEN IF backbeat
                              THEN event # Rest /\ event[2] = 80
                              ELSE event = Rest \/ event[2] \in 20..50
                      ELSE IF backbeat
                              THEN event = Rest
                              ELSE event = Rest \/ event[2] \in 30..80

\* C16 witness, snare: a track whose pattern has a rest, a softest and a
\* loudest ghost note, and a forced backbeat where a rest was drawn.
C16_Witness ==
    /\ drums.pc = "done"
    /\ drums.drum = "snare"
    /\ drums.track[1] = Rest
    /\ drums.track[2] = <<43, 20, DrumDuration>>
    /\ drums.track[4] = <<43, 50, DrumDuration>>
    /\ drums.track[GridSteps - 1] = <<43, 80, DrumDuration>>

(***************************************************************************)
(* Properties of the pitch draw, for every key, mode and chord.            *)
(***************************************************************************)

\* C18: at every pitch draw, in either pool, no candidate's weight is
\* negative, a candidate farther than 36 semitones from the previous pitch
\* has no positive weight (no candidate is that far: the previous pitch is
\* one of the same chord's candidates), and the weights of either pool sum
\* to more than 0, so line 227 does not divide by zero.
C18_PitchWeightsSound ==
    /\ gm_pc # "ZeroDivisionError"
    /\ DurationDraw =>
           \A pool \in {chord_tones, non_chord_tones} :
               /\ \A n \in 1..Len(pool) :
                      /\ PitchWeight(last_played, pool[n]) >= 0
                      /\ (/\ Truthy(last_played)
                          /\ Abs(last_played - pool[n]) > PitchWindow)
                             => PitchWeight(last_played, pool[n]) <= 0
                      /\ Truthy(last_played)
                             => Abs(last_played - pool[n]) <= PitchWindow
               /\ WeightSum(last_played, pool) > 0

\* C18 witness: a pitch draw in a minor key after a previous pitch, with a
\* candidate 30 semitones away from it (the lowest scale tone and the
\* highest tone of VII an octave up), whose weight is (36 - 30)^2.
C18_Witness ==
    /\ DurationDraw
    /\ ~major
    /\ Truthy(last_played)
    /\ \E n \in 1..Len(chord_tones) :
           /\ Abs(last_played - chord_tones[n]) = 30
           /\ PitchWeight(last_played, chord_tones[n]) = 36

\* C19: every chord either transition graph lets generate_progression
\* return has an entry in triad_notes, so get_chord raises no KeyError for
\* it; both pools built for it hold a candidate, in every key and mode;
\* and no draw of generate_melody fails.
C19_GeneratedChordsHaveTones ==
    /\ \A maj \in BOOLEAN :
           \A c \in DOMAIN TransitionsFor(maj) :
               /\ c \in DOMAIN triad_notes
               /\ \A n \in 1..Len(TransitionsFor(maj)[c]) :
                      TransitionsFor(maj)[c][n] \in DOMAIN triad_notes
    /\ gm_pc \notin {"KeyError", "ValueError", "ZeroDivisionError"}
    /\ gm_pc = "while" =>
           /\ chord_tones # <<>>
           /\ non_chord_tones # <<>>

\* C19 witness: the melody of a four-tone chord of the minor graph, in the
\* highest key, is returned; its pools held eight chord tones and the
\* scale tones that are no chord tones.
C19_Witness ==
    /\ gm_pc = "returned"
    /\ ~major
    /\ key = keys_in_octave[Len(keys_in_octave)]
    /\ progression = <<"ii0">>
    /\ Len(chord_tones) = 8
    /\ Len(non_chord_tones) = 12

(***************************************************************************)
(* Properties of the messages of a grid step.                              *)
(***************************************************************************)

\* C20: every play() call and every message sent for it has its note in
\* 0..127, its velocity in 1..127 and its channel in 0..15, for every key,
\* chord, instrument and slot; a slot that holds no event (a drum draw of
\* velocity 0 became None) is not played.
C20_MessagesInMidiRange ==
    /\ \A n \in 1..Len(dispatch.calls) :
           /\ dispatch.calls[n].note \in 0..127
           /\ dispatch.calls[n].vel \in 1..127
           /\ dispatch.calls[n].channel \in 0..15
    /\ \A n \in 1..Len(dispatch.sent) :
           /\ dispatch.sent[n].note \in 0..127
           /\ dispatch.sent[n].velocity \in 1..127
           /\ dispatch.sent[n].channel \in 0..15
    /\ dispatch.pc \in {"played", "sent"} =>
           (dispatch.event = Rest <=> dispatch.calls = <<>>)
    /\ dispatch.pc = "sent" => Len(dispatch.sent) = 2 * Len(dispatch.calls)

\* C20 witness: the messages of the highest melody note (key B, the fifth
\* of V an octave up, the instrument that plays an octave higher) are sent.
C20_Witness ==
    /\ dispatch.pc = "sent"
    /\ dispatch.kind = "event"
    /\ dispatch.channel = 10
    /\ Len(dispatch.sent) = 2
    /\ dispatch.sent[1].type = "note_on"
    /\ dispatch.sent[1].note = 97
    /\ dispatch.sent[2].type = "note_off"

(***************************************************************************)
(* Properties of the swing timing.                                         *)
(***************************************************************************)

\* The float after x.
FSucc(x) ==
    LET m == BigAdd(x.m, <<1>>)
    IN  IF m[4] >= 2^11 THEN [m |-> BigDivSmall(m, 2).q, e |-> x.e + 1]
        ELSE [m |-> m, e |-> x.e]

\* x and y are the same float or neighbours.
WithinOneUlp(x, y) == x = y \/ FSucc(x) = y \/ FSucc(y) = x

\* The loop has played both steps of a pair.
PairPlayed == timing.pc = "step" /\ Len(timing.sleeps) = 2

\* Both events of the pair are 0.125-bar notes.
PairOfEighths ==
    /\ PairPlayed
    /\ \A n \in 1..2 : timing.events[n].nominal = 125

\* What the same pair takes without swing.
UnswungSleep ==
    FAdd(StepSeconds[timing.tempo].sleep[FALSE, 0],
         StepSeconds[timing.tempo].sleep[FALSE, 1])

UnswungRhythm ==
    FAdd(StepSeconds[timing.tempo].rhythm[FALSE, 0],
         StepSeconds[timing.tempo].rhythm[FALSE, 1])

UnswungEighths ==
    FAdd(StepSeconds[timing.tempo].event[FALSE, 0, 125],
         StepSeconds[timing.tempo].event[FALSE, 1, 125])

\* An event whose nominal duration is not 0.125 is played for its nominal
\* duration, in bars of four beats.
OthersKeepNominal ==
    \A n \in 1..Len(timing.events) :
        timing.events[n].nominal # 125 =>
            timing.events[n].duration =
                FMul(FMul(Literal[timing.events[n].nominal],
                          timing.seconds_per_beat),
                     Literal[4000])

\* C14 as stated: with swing, the two sleeps of a pair of steps sum exactly
\* to the two sleeps of the pair without swing, and so do the durations of
\* the rhythm chords and of two 0.125-bar notes; an event whose nominal
\* duration is not 0.125 keeps it.
C14_SwungPairSumsExactly ==
    (timing.pc = "step" /\ timing.swing) =>
        /\ PairPlayed =>
               /\ FAdd(timing.sleeps[1], timing.sleeps[2]) = UnswungSleep
               /\ FAdd(timing.rhythm[1], timing.rhythm[2]) = UnswungRhythm
        /\ PairOfEighths =>
               FAdd(timing.events[1].duration, timing.events[2].duration)
                   = UnswungEighths
        /\ OthersKeepNominal

\* C14, amended: with swing and a tempo of 100 to 200, the two sleeps of a
\* pair of steps sum to the sum of the two sleeps of the pair without swing
\* or to a float next to it, and so do the durations of the rhythm chords
\* and of two 0.125-bar notes; an event of the loop whose nominal duration
\* is not 0.125 keeps it.
C14_SwungPairSumsWithinRounding ==
    (timing.pc = "step" /\ timing.swing) =>
        /\ PairPlayed =>
               /\ WithinOneUlp(FAdd(timing.sleeps[1], timing.sleeps[2]),
                               UnswungSleep)
               /\ WithinOneUlp(FAdd(timing.rhythm[1], timing.rhythm[2]),
                               UnswungRhythm)
        /\ PairOfEighths =>
               WithinOneUlp(FAdd(timing.events[1].duration,
                                 timing.events[2].duration),
                            UnswungEighths)
        /\ OthersKeepNominal

\* A swung pair of 0.125-bar notes has been played and slept through, and
\* neither sum is the sum without swing.
C14_Witness ==
    /\ PairOfEighths
    /\ timing.swing
    /\ FAdd(timing.sleeps[1], timing.sleeps[2]) # UnswungSleep
    /\ FAdd(timing.events[1].duration, timing.events[2].duration)
           # UnswungEighths

====
